---- MODULE Spec2Model ----
(***************************************************************************)
(* Model of generate.py: the build of the PreTeXt structural tree from a   *)
(* question-bank folder (compile_structural_element) followed by the write *)
(* of one .ptx file per structural element (make_files).                   *)
(*                                                                         *)
(* Text (file names, titles, slugs, paths) is a sequence of one-character  *)
(* strings, so that endswith, split, slugify, os.path.join and             *)
(* os.path.relpath are computed character by character as the code does.   *)
(* A location on disk is the sequence of the segments of its normalised    *)
(* path, relative to the working directory of the process.                 *)
(***************************************************************************)
EXTENDS Integers, Sequences, FiniteSets, TLC

\* ------------------------------------------------------------------ bounds
\* Depth of the deepest directory of a source tree below source/stack.
MaxSrcDepth == 4

\* ------------------------------------------------------------------- text
UpperSeq == <<"A","B","C","D","E","F","G","H","I","J","K","L","M",
              "N","O","P","Q","R","S","T","U","V","W","X","Y","Z">>
LowerSeq == <<"a","b","c","d","e","f","g","h","i","j","k","l","m",
              "n","o","p","q","r","s","t","u","v","w","x","y","z">>
Digits == {"0","1","2","3","4","5","6","7","8","9"}
LowerSet == {LowerSeq[i] : i \in 1..26}

ToLower(c) ==
    IF \E i \in 1..26 : UpperSeq[i] = c
    THEN LowerSeq[CHOOSE i \in 1..26 : UpperSeq[i] = c]
    ELSE c

\* str.endswith
EndsWith(s, suffix) ==
    /\ Len(s) >= Len(suffix)
    /\ SubSeq(s, Len(s) - Len(suffix) + 1, Len(s)) = suffix

\* str.split(sep): the pieces between the separators, empty pieces kept
Split(s, sep) ==
    LET RECURSIVE go(_, _, _)
        go(i, cur, acc) ==
            IF i > Len(s) THEN Append(acc, cur)
            ELSE IF s[i] = sep THEN go(i + 1, <<>>, Append(acc, cur))
            ELSE go(i + 1, Append(cur, s[i]), acc)
    IN go(1, <<>>, <<>>)

\* "/".join(parts)
JoinSegs(parts) ==
    LET RECURSIVE go(_, _)
        go(i, acc) ==
            IF i > Len(parts) THEN acc
            ELSE go(i + 1, IF i = 1 THEN parts[i] ELSE acc \o <<"/">> \o parts[i])
    IN go(1, <<>>)

\* python-slugify on ASCII text: lower-case, every run of characters other
\* than letters and digits becomes one "-", leading and trailing "-" dropped.
Slugify(text) ==
    LET RECURSIVE go(_, _)
        go(i, acc) ==
            IF i > Len(text) THEN acc
            ELSE LET c == ToLower(text[i])
                 IN IF c \in LowerSet \cup Digits THEN go(i + 1, Append(acc, c))
                    ELSE IF acc = <<>> \/ acc[Len(acc)] = "-" THEN go(i + 1, acc)
                    ELSE go(i + 1, Append(acc, "-"))
        raw == go(1, <<>>)
    IN IF raw # <<>> /\ raw[Len(raw)] = "-" THEN SubSeq(raw, 1, Len(raw) - 1) ELSE raw

\* os.path.join(a, b) on POSIX
PathJoin(a, b) ==
    IF b # <<>> /\ b[1] = "/" THEN b
    ELSE IF a = <<>> \/ a[Len(a)] = "/" THEN a \o b
    ELSE a \o <<"/">> \o b

Dot == <<".">>
DotDot == <<".", ".">>

\* os.path.normpath of a relative path, as the sequence of its segments
Normpath(p) ==
    LET parts == Split(p, "/")
        RECURSIVE go(_, _)
        go(i, acc) ==
            IF i > Len(parts) THEN acc
            ELSE LET c == parts[i]
                 IN IF c = <<>> \/ c = Dot THEN go(i + 1, acc)
                    ELSE IF c = DotDot /\ acc # <<>> /\ acc[Len(acc)] # DotDot
                         THEN go(i + 1, SubSeq(acc, 1, Len(acc) - 1))
                    ELSE go(i + 1, Append(acc, c))
    IN go(1, <<>>)

\* length of the common prefix of two segment sequences
CommonLen(a, b) ==
    LET RECURSIVE go(_)
        go(i) == IF i <= Len(a) /\ i <= Len(b) /\ a[i] = b[i] THEN go(i + 1) ELSE i - 1
    IN go(1)

\* os.path.relpath(path, start): both are made absolute against the same
\* working directory, which is a common prefix and cancels.
Relpath(path, start) ==
    LET start_list == Normpath(start)
        path_list == Normpath(path)
        i == CommonLen(start_list, path_list)
        rel_list == [k \in 1..(Len(start_list) - i) |-> DotDot]
                    \o SubSeq(path_list, i + 1, Len(path_list))
    IN IF rel_list = <<>> THEN Dot ELSE JoinSegs(rel_list)


\* ------------------------------------------------------------ literals
GitsyncCategory == <<"g","i","t","s","y","n","c","_","c","a","t","e","g","o","r","y",
                     ".","x","m","l">>
DotXml == <<".","x","m","l">>
DotPtx == <<".","p","t","x">>
MainPtx == <<"m","a","i","n",".","p","t","x">>
\* line 191: compile_structural_element("source/stack", "Stats Gold", level=0)
SourceStack == <<"s","o","u","r","c","e","/","s","t","a","c","k">>
StatsGold == <<"S","t","a","t","s"," ","G","o","l","d">>
\* line 192: ptx_main.make_files("source")
Source == <<"s","o","u","r","c","e">>

\* ---------------------------------------------------- the source folder
\* A directory listing is a sequence of entries, in os.listdir order. A
\* regular file carries what lxml makes of it: whether it parses, and the
\* elements its two xpath queries select.
DirEntry(n) == [name |-> n, kind |-> "dir"]
FileEntry(n, x) == [name |-> n, kind |-> "file", xml |-> x]
TextNode(t) == [tag |-> "text", text |-> t]
Malformed == [wellformed |-> FALSE, category |-> <<>>, qname |-> <<>>]
Question(t) == [wellformed |-> TRUE, category |-> <<>>, qname |-> <<TextNode(t)>>]
NoTitleNode == [wellformed |-> TRUE, category |-> <<>>, qname |-> <<>>]
Category(c) == [wellformed |-> TRUE, category |-> <<TextNode(c)>>, qname |-> <<>>]

Name_a == <<"a">>
Name_bang == <<"!">>
Name_Dxml == <<"D",".","x","m","l">>
Name_q1 == <<"q","1",".","x","m","l">>
Name_q2 == <<"q","2",".","x","m","l">>
Name_txt == <<"n",".","t","x","t">>
Cat_Sales == <<"A","/","B","/","S","a">>

\* The listings a directory at depth 0..3 may have.
Listings ==
    { <<DirEntry(Name_a), FileEntry(Name_q2, Question("T2")),
        FileEntry(Name_q1, Question("T1"))>>,
      <<FileEntry(Name_txt, Question("T3")), FileEntry(GitsyncCategory, Category(Cat_Sales)),
        DirEntry(Name_Dxml), FileEntry(Name_q1, Question("T1"))>>,
      <<DirEntry(Name_bang), DirEntry(Name_a)>>,
      <<DirEntry(Name_a), FileEntry(Name_q1, NoTitleNode),
        FileEntry(Name_q2, Malformed)>>,
      <<FileEntry(Name_q1, Question("T1")), FileEntry(GitsyncCategory, Malformed)>>,
      <<>> }

\* The listings a directory at depth 4 or deeper may have.
DeepListings ==
    { <<FileEntry(GitsyncCategory, Malformed), FileEntry(Name_q1, Malformed),
        DirEntry(Name_a)>>,
      <<FileEntry(Name_q1, Question("T1"))>> }

IsDirEntry(e) == e.kind = "dir"
IsFileEntry(e) == e.kind = "file"

\* Listing of a directory at depth d when every directory at depth k has
\* listing L[k + 1]; the deepest directories hold files only.
ListingAt(L, d) ==
    IF d >= MaxSrcDepth THEN SelectSeq(L[d + 1], IsFileEntry) ELSE L[d + 1]

RECURSIVE TreeDirs(_, _, _)
TreeDirs(L, path, d) ==
    LET listing == ListingAt(L, d)
        subs == {listing[k].name : k \in {j \in 1..Len(listing) : IsDirEntry(listing[j])}}
    IN {path} \cup UNION {TreeDirs(L, Append(path, n), d + 1) : n \in subs}

SourceStackLoc == Normpath(SourceStack)

\* depth of a location below source/stack
SrcDepth(loc) == Len(loc) - Len(SourceStackLoc)

MkTree(L) ==
    [p \in TreeDirs(L, SourceStackLoc, 0) |-> ListingAt(L, SrcDepth(p))]

\* Output folders a previous run may have left under source/.
PriorFolders == { {}, {<< Source, Name_a >>, << Source, Name_a, Name_a >>} }

VARIABLES
    tree,      \* the source folder: directory location -> listing
    dirs,      \* locations that are directories
    files,     \* output files: location -> text written
    phase,     \* "init", "build", "write", "done", "failed"
    error,     \* the exception that ended the run, or "none"
    elems,     \* the PTXStructuralElement objects, in order of construction
    ptx_main,  \* line 191: id of the root element, 0 before it is bound
    cstack,    \* frames of compile_structural_element, innermost last
    wstack,    \* frames of make_files, innermost last
    listed,    \* history: the directories given to os.listdir, in order
    opened,    \* history: the files opened for reading, in order
    log        \* history: makedirs and write calls, in order

vars == <<tree, dirs, files, phase, error, elems, ptx_main, cstack, wstack,
          listed, opened, log>>

\* ------------------------------------------------------------- classes
\* PTXStructuralElement.__init__
PTXStructuralElement(title, introduction) ==
    [title |-> title,
     title_slug |-> Slugify(title),
     introduction |-> introduction,
     questions |-> <<>>,
     children |-> <<>>,
     foldername |-> Slugify(title),
     filename |-> Slugify(title) \o DotPtx]

PTXMain(title, introduction) ==
    [cls |-> "PTXMain"] @@
    [PTXStructuralElement(title, introduction) EXCEPT
        !.foldername = Dot, !.filename = MainPtx]

PTXChapter(title, introduction) ==
    [cls |-> "PTXChapter", element_name |-> "chapter",
     xml_id |-> <<"c","h","-">> \o Slugify(title)] @@
    PTXStructuralElement(title, introduction)

PTXSection(title, introduction) ==
    [cls |-> "PTXSection", element_name |-> "section",
     xml_id |-> <<"s","e","c","-">> \o Slugify(title)] @@
    PTXStructuralElement(title, introduction)

PTXSubsection(title, introduction) ==
    [cls |-> "PTXSubsection", element_name |-> "subsection",
     xml_id |-> <<"s","u","b","s","e","c","-">> \o Slugify(title)] @@
    PTXStructuralElement(title, introduction)

level_map == (0 :> "PTXMain") @@ (1 :> "PTXChapter") @@ (2 :> "PTXSection")
             @@ (3 :> "PTXSubsection")

\* elem_type(title, "")
Construct(elem_type, title) ==
    CASE elem_type = "PTXMain" -> PTXMain(title, <<>>)
      [] elem_type = "PTXChapter" -> PTXChapter(title, <<>>)
      [] elem_type = "PTXSection" -> PTXSection(title, <<>>)
      [] elem_type = "PTXSubsection" -> PTXSubsection(title, <<>>)

\* mutant: the folder is left out of the path
rel_path_FileOnly(self) == elems[self].filename

\* rel_path property
rel_path(self) == PathJoin(elems[self].foldername, elems[self].filename)

\* get_include: the href of the xi:include
get_include(self) == [href |-> rel_path(self)]

\* ------------------------------------------------------ the file system
IsDir(path) == Normpath(path) \in dirs

\* the entry of the source folder a path names
SrcEntry(path) ==
    LET segs == Normpath(path)
        listing == tree[SubSeq(segs, 1, Len(segs) - 1)]
    IN listing[CHOOSE k \in 1..Len(listing) : listing[k].name = segs[Len(segs)]]

\* os.listdir
Listdir(path) ==
    LET listing == tree[Normpath(path)]
    IN [k \in 1..Len(listing) |-> listing[k].name]

\* ET.parse(f).xpath(q) followed by tag[0]: possible only on a well-formed
\* regular file in which the query selects an element
Parses(path, q) ==
    LET e == SrcEntry(path)
    IN e.kind = "file" /\ e.xml.wellformed /\ e.xml[q] # <<>>

\* PTXStackQuestion.__init__
PTXStackQuestion(filepath) ==
    [filepath |-> filepath,
     xmlid |-> Slugify(filepath),
     title_tag |-> [SrcEntry(filepath).xml.qname[1] EXCEPT !.tag = "title"]]

\* PTXStackQuestion.render
QuestionRender(q, relative_to) ==
    [title_tag |-> q.title_tag, label |-> q.xmlid,
     href |-> Relpath(q.filepath, relative_to)]

\* PTXStructuralElement.render
ElementRender(self, basepath) ==
    LET e == elems[self]
    IN [element_name |-> e.element_name,
        xml_id |-> e.xml_id,
        title |-> e.title,
        introduction |-> e.introduction,
        question_includes |->
            [k \in 1..Len(e.questions) |-> QuestionRender(e.questions[k], basepath)],
        child_includes |->
            [k \in 1..Len(e.children) |-> get_include(e.children[k])]]

\* PTXMain.render
MainRender(self) ==
    LET e == elems[self]
    IN [element_name |-> "book",
        xml_id |-> e.title_slug,
        title |-> e.title,
        child_includes |->
            [k \in 1..Len(e.children) |-> get_include(e.children[k])]]

Render(self, basepath) ==
    IF elems[self].cls = "PTXMain" THEN MainRender(self) ELSE ElementRender(self, basepath)

\* ---------------------------------------------------------------- Init
Init ==
    /\ \E top \in [1..4 -> Listings] :
       \E deep \in [5..(MaxSrcDepth + 1) -> DeepListings] :
            tree = MkTree(top @@ deep)
    /\ \E prior \in PriorFolders :
            dirs = {<<Source>>} \cup DOMAIN tree \cup prior
    /\ files = <<>>
    /\ phase = "init"
    /\ error = "none"
    /\ elems = <<>>
    /\ ptx_main = 0
    /\ cstack = <<>>
    /\ wstack = <<>>
    /\ listed = <<>>
    /\ opened = <<>>
    /\ log = <<>>

\* ------------------------------------------- compile_structural_element
\* mutant: the exception is recorded and the run goes on
Raise_Swallowed(exc) ==
    /\ phase' = phase
    /\ error' = exc

\* an exception nothing catches ends the run
Raise(exc) ==
    /\ phase' = "failed"
    /\ error' = exc

Last(s) == s[Len(s)]

\* an entry of the histories: the path as the code wrote it, and its location
Visit(path) == [path |-> path, loc |-> Normpath(path)]

\* line 171
HasCategory(paths) == \E k \in 1..Len(paths) : paths[k] = GitsyncCategory

\* mutant: the whole category string is taken, not its last segment
ResolveTitle_WholeCategory(basepath, title) ==
    IF HasCategory(Listdir(basepath))
    THEN SrcEntry(PathJoin(basepath, GitsyncCategory)).xml.category[1].text
    ELSE title

\* lines 171-175: the title of the element built for basepath
ResolveTitle(basepath, title) ==
    IF HasCategory(Listdir(basepath))
    THEN LET tag == SrcEntry(PathJoin(basepath, GitsyncCategory)).xml.category
         IN Last(Split(tag[1].text, "/"))
    ELSE title

\* Lines 170-178 of a call compile_structural_element(basepath, title, level)
\* made with `callers` on the stack: the listing, the category descriptor,
\* the construction of the element.
Call(basepath, title, level, callers) ==
    LET paths == Listdir(basepath)
        has_category == HasCategory(paths)
        category_path == PathJoin(basepath, GitsyncCategory)
    IN /\ listed' = Append(listed, Visit(basepath))
       /\ opened' = IF has_category THEN Append(opened, Visit(category_path)) ELSE opened
       /\ IF has_category /\ ~Parses(category_path, "category")
          THEN /\ Raise("ParseError")
               /\ cstack' = callers
               /\ UNCHANGED elems
          ELSE IF level \notin DOMAIN level_map
          THEN /\ Raise("KeyError")
               /\ cstack' = callers
               /\ UNCHANGED elems
          ELSE /\ elems' = Append(elems, Construct(level_map[level],
                                                  ResolveTitle(basepath, title)))
               /\ cstack' = Append(callers,
                                   [basepath |-> basepath, level |-> level,
                                    paths |-> paths, i |-> 1,
                                    ptx_elem |-> Len(elems) + 1])
               /\ phase' = "build"
               /\ UNCHANGED error

\* the frame whose loop is running, and the entry the loop is at
Top == cstack[Len(cstack)]
InLoop == phase = "build" /\ cstack # <<>> /\ Top.i <= Len(Top.paths)
CurName == Top.paths[Top.i]
CurPath == PathJoin(Top.basepath, CurName)
Advanced == [cstack EXCEPT ![Len(cstack)].i = @ + 1]

\* mutants of the guard of line 182: one level too many, one too few, none
MayDescend_UpTo3(level) == level <= 3
MayDescend_Below2(level) == level < 2
MayDescend_Always(level) == level >= 0

\* line 182: the guard of the recursion
MayDescend(level) == level < 3

\* mutant: the extension is not looked at
IsQuestionName_AnyFile(name) == name # GitsyncCategory

\* line 185: a file that is taken for a question
IsQuestionName(name) == EndsWith(name, DotXml) /\ name # GitsyncCategory

\* line 191
Start ==
    /\ phase = "init"
    /\ Call(SourceStack, StatsGold, 0, <<>>)
    /\ UNCHANGED <<tree, dirs, files, ptx_main, wstack, log>>

\* lines 181-184, a subdirectory above the last level: the recursive call
CompileChild ==
    /\ InLoop
    /\ IsDir(CurPath)
    /\ MayDescend(Top.level)
    /\ Call(CurPath, CurName, Top.level + 1, Advanced)
    /\ UNCHANGED <<tree, dirs, files, ptx_main, wstack, log>>

\* lines 181-182, a subdirectory of a level-3 directory: nothing is done
SkipDir ==
    /\ InLoop
    /\ IsDir(CurPath)
    /\ ~MayDescend(Top.level)
    /\ cstack' = Advanced
    /\ UNCHANGED <<tree, dirs, files, phase, error, elems, ptx_main, wstack,
                   listed, opened, log>>

\* lines 185-188
AddQuestion ==
    /\ InLoop
    /\ ~IsDir(CurPath)
    /\ IsQuestionName(CurName)
    /\ opened' = Append(opened, Visit(CurPath))
    /\ IF Parses(CurPath, "qname")
       THEN /\ elems' = [elems EXCEPT ![Top.ptx_elem].questions =
                                          Append(@, PTXStackQuestion(CurPath))]
            /\ cstack' = Advanced
            /\ UNCHANGED <<phase, error>>
       ELSE /\ Raise("ParseError")
            /\ UNCHANGED <<elems, cstack>>
    /\ UNCHANGED <<tree, dirs, files, ptx_main, wstack, listed, log>>

\* line 185 false: any other file
SkipFile ==
    /\ InLoop
    /\ ~IsDir(CurPath)
    /\ ~IsQuestionName(CurName)
    /\ cstack' = Advanced
    /\ UNCHANGED <<tree, dirs, files, phase, error, elems, ptx_main, wstack,
                   listed, opened, log>>

\* line 189 in a recursive call, then line 184 in its caller
ReturnChild ==
    /\ phase = "build" /\ Len(cstack) > 1
    /\ Top.i > Len(Top.paths)
    /\ cstack' = SubSeq(cstack, 1, Len(cstack) - 1)
    /\ elems' = [elems EXCEPT ![cstack[Len(cstack) - 1].ptx_elem].children =
                                  Append(@, Top.ptx_elem)]
    /\ UNCHANGED <<tree, dirs, files, phase, error, ptx_main, wstack,
                   listed, opened, log>>

\* line 189 in the outermost call, then lines 191-192: ptx_main is bound and
\* make_files("source") is entered
ReturnMain ==
    /\ phase = "build" /\ Len(cstack) = 1
    /\ Top.i > Len(Top.paths)
    /\ cstack' = <<>>
    /\ ptx_main' = Top.ptx_elem
    /\ phase' = "write"
    /\ wstack' = <<[self |-> Top.ptx_elem, basepath |-> Source, pc |-> "open", i |-> 1]>>
    /\ UNCHANGED <<tree, dirs, files, error, elems, listed, opened, log>>

\* ----------------------------------------------------------- make_files
WTop == wstack[Len(wstack)]

\* the folder a path lies in
Parent(loc) == SubSeq(loc, 1, Len(loc) - 1)

\* lines 52-54: open(full_path, "w") and the write of render(basepath)
WriteFile ==
    /\ phase = "write" /\ wstack # <<>> /\ WTop.pc = "open"
    /\ LET full_path == PathJoin(WTop.basepath, elems[WTop.self].filename)
           loc == Normpath(full_path)
       IN /\ log' = Append(log, [op |-> "write", loc |-> loc, self |-> WTop.self,
                                 basepath |-> WTop.basepath,
                                 text |-> Render(WTop.self, WTop.basepath),
                                 folder_exists |-> Parent(loc) \in dirs])
          /\ IF Parent(loc) \in dirs /\ loc \notin dirs
             THEN /\ files' = (loc :> Render(WTop.self, WTop.basepath)) @@ files
                  /\ wstack' = [wstack EXCEPT ![Len(wstack)].pc = "loop"]
                  /\ UNCHANGED <<phase, error>>
             ELSE /\ Raise("OSError")
                  /\ UNCHANGED <<files, wstack>>
    /\ UNCHANGED <<tree, dirs, elems, ptx_main, cstack, listed, opened>>

\* every prefix of a location: os.makedirs creates the missing ones
Prefixes(loc) == {SubSeq(loc, 1, k) : k \in 1..Len(loc)}

\* mutant: exist_ok is not passed
MakedirsSucceeds_NoExistOk(loc) == loc \notin dirs /\ Prefixes(loc) \cap DOMAIN files = {}

\* os.makedirs(child_path, exist_ok=True) succeeds unless a regular file is
\* in the way; an existing folder is accepted
MakedirsSucceeds(loc) == Prefixes(loc) \cap DOMAIN files = {}

\* the folders after os.makedirs
Makedirs(loc) == dirs \cup Prefixes(loc)

\* lines 55-58: the child's folder is made, then child.make_files is entered
MakeChild ==
    /\ phase = "write" /\ wstack # <<>> /\ WTop.pc = "loop"
    /\ WTop.i <= Len(elems[WTop.self].children)
    /\ LET child == elems[WTop.self].children[WTop.i]
           child_path == PathJoin(WTop.basepath, elems[child].foldername)
           loc == Normpath(child_path)
       IN /\ log' = Append(log, [op |-> "makedirs", loc |-> loc, self |-> child,
                                 folder_exists |-> loc \in dirs])
          /\ IF MakedirsSucceeds(loc)
             THEN /\ dirs' = Makedirs(loc)
                  /\ wstack' = Append([wstack EXCEPT ![Len(wstack)].i = @ + 1],
                                      [self |-> child, basepath |-> child_path,
                                       pc |-> "open", i |-> 1])
                  /\ UNCHANGED <<phase, error>>
             ELSE /\ Raise("OSError")
                  /\ UNCHANGED <<dirs, wstack>>
    /\ UNCHANGED <<tree, files, elems, ptx_main, cstack, listed, opened>>

\* the loop of line 55 is over: make_files returns
WriteReturn ==
    /\ phase = "write" /\ wstack # <<>> /\ WTop.pc = "loop"
    /\ WTop.i > Len(elems[WTop.self].children)
    /\ wstack' = SubSeq(wstack, 1, Len(wstack) - 1)
    /\ phase' = IF Len(wstack) = 1 THEN "done" ELSE "write"
    /\ UNCHANGED <<tree, dirs, files, error, elems, ptx_main, cstack,
                   listed, opened, log>>

Next ==
    \/ Start
    \/ CompileChild
    \/ SkipDir
    \/ AddQuestion
    \/ SkipFile
    \/ ReturnChild
    \/ ReturnMain
    \/ WriteFile
    \/ MakeChild
    \/ WriteReturn

Spec == Init /\ [][Next]_vars

\* ============================================================== claims
Range(f) == {f[k] : k \in DOMAIN f}
Children(n) == Range(elems[n].children)

\* the elements at depth d of the tree bound to ptx_main
RECURSIVE NodesAt(_)
NodesAt(d) == IF d = 0 THEN {ptx_main} ELSE UNION {Children(n) : n \in NodesAt(d - 1)}

Built == ptx_main # 0
Max(S) == CHOOSE m \in S : \A x \in S : x <= m
Min2(a, b) == IF a <= b THEN a ELSE b

\* the source directories down to the last level that yields elements
VisitedDirs == {p \in DOMAIN tree : SrcDepth(p) <= 3}
SrcTreeDepth == Max({SrcDepth(p) : p \in DOMAIN tree})
BuiltDepth == Max({d \in 0..4 : NodesAt(d) # {}})

\* depth of the folder a location lies in
FolderDepth(loc) == SrcDepth(Parent(loc))
HasSubdir(p) == \E k \in 1..Len(tree[p]) : IsDirEntry(tree[p][k])

\* C1: in the tree returned by compile_structural_element started at level
\* 0, an element at depth d is of class level_map[d], there is no element
\* below depth 3, a PTXSubsection has no children, and level_map is never
\* looked up with a level outside 0..3.
C1_LevelRoles ==
    /\ error # "KeyError"
    /\ \A k \in 1..Len(cstack) :
          /\ cstack[k].level = k - 1
          /\ cstack[k].level \in 0..3
          /\ elems[cstack[k].ptx_elem].cls = level_map[cstack[k].level]
    /\ Built =>
          /\ \A d \in 0..3 : \A n \in NodesAt(d) : elems[n].cls = level_map[d]
          /\ NodesAt(4) = {}
          /\ \A n \in 1..Len(elems) :
                elems[n].cls = "PTXSubsection" => elems[n].children = <<>>

\* a build has returned a tree with a PTXSubsection whose source directory
\* has a subdirectory
C1_Witness ==
    /\ Built
    /\ \E n \in NodesAt(3) : HasSubdir(listed[n].loc)

\* C2: when the build succeeds there is exactly one element per source
\* directory at depth 0..3, all of them in the tree; the depth of the tree
\* is min(depth of the source tree, 3); no directory at depth 4 or deeper
\* yields an element, and no file of such a directory is among the questions.
C2_OneNodePerDir ==
    Built =>
        /\ Len(elems) = Cardinality(VisitedDirs)
        /\ {listed[n].loc : n \in 1..Len(elems)} = VisitedDirs
        /\ UNION {NodesAt(d) : d \in 0..3} = 1..Len(elems)
        /\ BuiltDepth = Min2(SrcTreeDepth, 3)
        /\ \A n \in 1..Len(elems) :
              /\ SrcDepth(listed[n].loc) <= 3
              /\ \A k \in 1..Len(elems[n].questions) :
                    FolderDepth(Normpath(elems[n].questions[k].filepath)) <= 3

\* a build has succeeded on a source tree of depth 4 with a .xml file in a
\* directory at depth 4
C2_Witness ==
    /\ Built
    /\ SrcTreeDepth >= 4
    /\ BuiltDepth = 3
    /\ \E p \in DOMAIN tree :
          /\ SrcDepth(p) = 4
          /\ \E k \in 1..Len(tree[p]) : EndsWith(tree[p][k].name, DotXml)

\* a file the build would parse, were it to visit its folder, that does not
\* parse: a descriptor without its category text, a question without its title
IsBadEntry(e) ==
    /\ e.kind = "file"
    /\ \/ e.name = GitsyncCategory /\ ~(e.xml.wellformed /\ e.xml.category # <<>>)
       \/ IsQuestionName(e.name) /\ ~(e.xml.wellformed /\ e.xml.qname # <<>>)
HasBadEntry(p) == \E k \in 1..Len(tree[p]) : IsBadEntry(tree[p][k])

NoDuplicates(seq) == \A i, j \in 1..Len(seq) : seq[i] = seq[j] => i = j

\* the guards of the ten steps: a run that has not ended can take one
CanStep ==
    \/ phase = "init"
    \/ InLoop /\ LET isdir == IsDir(CurPath)
                 IN \/ isdir /\ MayDescend(Top.level)
                    \/ isdir /\ ~MayDescend(Top.level)
                    \/ ~isdir /\ IsQuestionName(CurName)
                    \/ ~isdir /\ ~IsQuestionName(CurName)
    \/ phase = "build" /\ Len(cstack) > 1 /\ Top.i > Len(Top.paths)
    \/ phase = "build" /\ Len(cstack) = 1 /\ Top.i > Len(Top.paths)
    \/ phase = "write" /\ wstack # <<>> /\ WTop.pc = "open"
    \/ phase = "write" /\ wstack # <<>> /\ WTop.pc = "loop"
          /\ WTop.i <= Len(elems[WTop.self].children)
    \/ phase = "write" /\ wstack # <<>> /\ WTop.pc = "loop"
          /\ WTop.i > Len(elems[WTop.self].children)

InFrame(n) == \E k \in 1..Len(cstack) : cstack[k].ptx_elem = n

\* the sum of f over S, for f with values in Nat: the number of pairs <<x, j>>
\* with x in S and 1 <= j <= f[x]
SumOver(S, f) == Cardinality(UNION {{x} \X (1..f[x]) : x \in S})

\* the work a run has done: calls, reads, loop positions, returned calls,
\* folders made and files written, returned writes
Work ==
    Len(listed) + Len(opened) + 2 * Len(log) - Len(wstack)
    + SumOver(1..Len(cstack), [k \in 1..Len(cstack) |-> cstack[k].i])
    + SumOver({n \in 1..Len(elems) : ~InFrame(n)},
              [n \in 1..Len(elems) |-> Len(tree[listed[n].loc]) + 3])

\* the work a source tree can ask for
WorkBound ==
    SumOver(VisitedDirs, [p \in VisitedDirs |-> 2 * Len(tree[p]) + 9])

\* C10 (what holds in every state): no directory below depth 3 is listed and
\* no file below depth 3 is opened, so a run that fails has a bad file at
\* depth 0..3; a directory is listed at most once; the work done stays within
\* what the directories at depth 0..3 ask for; a run that has not ended can
\* take its next step.
C10_Inv ==
    /\ \A k \in 1..Len(listed) : SrcDepth(listed[k].loc) <= 3
    /\ NoDuplicates([k \in 1..Len(listed) |-> listed[k].loc])
    /\ Len(listed) <= Cardinality(VisitedDirs)
    /\ \A k \in 1..Len(opened) : FolderDepth(opened[k].loc) <= 3
    /\ phase = "failed" => \E p \in VisitedDirs : HasBadEntry(p)
    /\ Work <= WorkBound
    /\ phase \in {"done", "failed"} \/ CanStep

\* C10: pruned subtrees are never read and the run ends: besides C10_Inv,
\* every step adds to the work done, which is bounded.
C10_PrunedNeverRead ==
    /\ []C10_Inv
    /\ [][Work' > Work]_vars

\* a run has completed on a source tree with a malformed descriptor and a
\* malformed .xml file at depth 4
C10_Witness ==
    /\ phase = "done"
    /\ \E p \in DOMAIN tree :
          /\ SrcDepth(p) = 4
          /\ \E k \in 1..Len(tree[p]) :
                tree[p][k].name = GitsyncCategory /\ IsBadEntry(tree[p][k])
          /\ \E k \in 1..Len(tree[p]) :
                tree[p][k].name = Name_q1 /\ IsBadEntry(tree[p][k])

\* the entry of the source folder at a location
EntryAt(loc) ==
    LET listing == tree[Parent(loc)]
    IN listing[CHOOSE k \in 1..Len(listing) : listing[k].name = Last(loc)]

\* an opened file that does not hold what the build looks for in it
BadFile(v) == IsBadEntry(EntryAt(v.loc))

\* C3: a file that fails to parse is the last file the run opens: the run
\* ends there in error, with no tree bound to ptx_main and nothing written;
\* a build that returns a tree met no bad file at depth 0..3.
C3_ParseFailureAborts ==
    /\ \A k \in 1..Len(opened) :
          BadFile(opened[k]) =>
              k = Len(opened) /\ phase = "failed" /\ error = "ParseError"
    /\ phase = "failed" =>
          /\ opened # <<>> /\ BadFile(Last(opened))
          /\ ptx_main = 0 /\ wstack = <<>> /\ log = <<>> /\ DOMAIN files = {}
    /\ Built => \A p \in VisitedDirs : ~HasBadEntry(p)

\* a run has failed below the root after files that parsed
C3_Witness ==
    /\ phase = "failed"
    /\ Len(elems) >= 2
    /\ Len(opened) >= 2

\* the part of a text after its last "/"
AfterLastSlash(text) ==
    LET slashes == {k \in 1..Len(text) : text[k] = "/"}
    IN IF slashes = {} THEN text ELSE SubSeq(text, Max(slashes) + 1, Len(text))

Descriptors(p) == {k \in 1..Len(tree[p]) : tree[p][k].name = GitsyncCategory}

\* the title the claim gives the n-th element
ExpectedTitle(n) ==
    LET p == listed[n].loc
    IN IF Descriptors(p) # {}
       THEN AfterLastSlash(tree[p][CHOOSE k \in Descriptors(p) : TRUE].xml.category[1].text)
       ELSE IF n = 1 THEN StatsGold ELSE Last(p)

\* C4: the title of an element is the last segment of the category of its
\* directory's descriptor when there is one, and else the directory's name
\* (the seed "Stats Gold" for the root); a directory without a descriptor
\* raises no error; the slug is slugify(title).
C4_TitleResolution ==
    /\ \A n \in 1..Len(elems) :
          /\ elems[n].title = ExpectedTitle(n)
          /\ elems[n].title_slug = Slugify(ExpectedTitle(n))
    /\ \A n \in 1..Len(listed) :
          Descriptors(listed[n].loc) = {} => n <= Len(elems)

\* a tree is built in which a descriptor gave "Sa" to a directory of another
\* name, a directory without descriptor kept its name D.xml, and the root
\* kept its seed
C4_Witness ==
    /\ Built
    /\ elems[1].title = StatsGold
    /\ elems[1].title_slug = <<"s","t","a","t","s","-","g","o","l","d">>
    /\ \E n \in 2..Len(elems) :
          /\ Descriptors(listed[n].loc) # {}
          /\ elems[n].title = <<"S","a">>
          /\ Last(listed[n].loc) # <<"S","a">>
    /\ \E n \in 2..Len(elems) :
          /\ Descriptors(listed[n].loc) = {}
          /\ elems[n].title = Name_Dxml
          /\ elems[n].title_slug = <<"d","-","x","m","l">>

WriteEvents == {j \in 1..Len(log) : log[j].op = "write"}

\* where a relative reference leads from a folder
Resolve(folder, href) == Normpath(PathJoin(folder, href))

\* C5: the href of a child in the text written for an element, resolved from
\* the folder of that text's file, is where the child's file is written; the
\* href of a question of a non-root element, resolved from the element's
\* output folder, is the question's source file.
C5_IncludeRoundTrip ==
    \A j \in WriteEvents :
        LET w == log[j]
            e == elems[w.self]
        IN /\ Len(w.text.child_includes) = Len(e.children)
           /\ \A k \in 1..Len(e.children) :
                 \A i \in WriteEvents :
                     log[i].self = e.children[k] =>
                         Resolve(JoinSegs(Parent(w.loc)), w.text.child_includes[k].href)
                             = log[i].loc
           /\ w.self # ptx_main =>
                 /\ Len(w.text.question_includes) = Len(e.questions)
                 /\ \A k \in 1..Len(e.questions) :
                       /\ Resolve(w.basepath, w.text.question_includes[k].href)
                              = Normpath(e.questions[k].filepath)
                       /\ SrcEntry(e.questions[k].filepath).kind = "file"

\* all files are written, among them one of a section with a question and
\* one of an element whose slug is empty
C5_Witness ==
    /\ phase = "done"
    /\ \E j \in WriteEvents :
          /\ elems[log[j].self].cls = "PTXSection"
          /\ elems[log[j].self].questions # <<>>
    /\ \E j \in WriteEvents : elems[log[j].self].title_slug = <<>>

SiblingSlugsDistinct ==
    \A n \in 1..Len(elems) :
        \A i, j \in 1..Len(elems[n].children) :
            elems[elems[n].children[i]].title_slug = elems[elems[n].children[j]].title_slug
                => i = j

\* C6: when the children of every element have pairwise distinct slugs, no
\* two elements are written to the same file.
C6_UniqueOutputPaths ==
    (phase = "done" /\ SiblingSlugsDistinct) =>
        \A i, j \in WriteEvents : log[i].loc = log[j].loc => i = j

QuestionBlocks(text) ==
    IF "question_includes" \in DOMAIN text THEN text.question_includes ELSE <<>>

\* C7: after the write, the file of every element holds one include per
\* child, in order, and one block per question, in order.
C7_FileHoldsAllIncludes ==
    phase = "done" =>
        \A n \in 1..Len(elems) :
            \E j \in WriteEvents :
                /\ log[j].self = n
                /\ LET text == files[log[j].loc]
                       e == elems[n]
                   IN /\ Len(text.child_includes) = Len(e.children)
                      /\ \A k \in 1..Len(e.children) :
                            text.child_includes[k].href = rel_path(e.children[k])
                      /\ Len(QuestionBlocks(text)) = Len(e.questions)
                      /\ \A k \in 1..Len(e.questions) :
                            QuestionBlocks(text)[k].label = e.questions[k].xmlid

\* C8: no write fails; a file is written into a folder that exists; the
\* file of a child is written right after its folder is made, and after the
\* file of its parent; a folder that is already there stops nothing: at the
\* end every element has been written once.
C8_WriteOrdering ==
    /\ error # "OSError"
    /\ \A j \in 1..Len(log) :
          /\ log[j].op = "write" =>
                /\ log[j].folder_exists
                /\ log[j].self # ptx_main =>
                      /\ j > 1
                      /\ log[j - 1].op = "makedirs"
                      /\ log[j - 1].self = log[j].self
                      /\ log[j - 1].loc = Parent(log[j].loc)
                      /\ \E i \in 1..(j - 1) :
                            /\ log[i].op = "write"
                            /\ log[j].self \in Children(log[i].self)
          /\ log[j].op = "makedirs" =>
                (j < Len(log) \/ phase = "write") /\ error = "none"
    /\ phase = "done" =>
          \A n \in 1..Len(elems) : Cardinality({j \in WriteEvents : log[j].self = n}) = 1

\* a write has completed in which the first folder to make, source/a, was
\* there from a previous run, and another folder was not
C8_Witness ==
    /\ phase = "done"
    /\ Len(log) >= 2
    /\ log[2].op = "makedirs" /\ log[2].folder_exists
    /\ log[2].loc = <<Source, Name_a>>
    /\ \E j \in 1..Len(log) : log[j].op = "makedirs" /\ ~log[j].folder_exists

IsQuestionEntry(e) ==
    e.kind = "file" /\ EndsWith(e.name, DotXml) /\ e.name # GitsyncCategory

\* C9: once the call for a directory has returned, the questions of its
\* element are its .xml files other than the descriptor, in listing order,
\* and its children are its subdirectories, in listing order (none at
\* level 3); nothing else is taken.
C9_EntryClassification ==
    \A n \in 1..Len(elems) :
        ~InFrame(n) =>
            LET p == listed[n].loc
                qs == SelectSeq(tree[p], IsQuestionEntry)
                ds == IF SrcDepth(p) = 3 THEN <<>> ELSE SelectSeq(tree[p], IsDirEntry)
                e == elems[n]
            IN /\ Len(e.questions) = Len(qs)
               /\ \A k \in 1..Len(qs) :
                     Normpath(e.questions[k].filepath) = Append(p, qs[k].name)
               /\ Len(e.children) = Len(ds)
               /\ \A k \in 1..Len(ds) :
                     listed[e.children[k]].loc = Append(p, ds[k].name)

\* a tree is built with an element whose questions are q2 then q1, and an
\* element whose directory holds n.txt, the descriptor and the folder D.xml
C9_Witness ==
    /\ Built
    /\ \E n \in 1..Len(elems) :
          /\ Len(elems[n].questions) = 2
          /\ Last(Normpath(elems[n].questions[1].filepath)) = Name_q2
          /\ Last(Normpath(elems[n].questions[2].filepath)) = Name_q1
    /\ \E n \in 1..Len(elems) :
          /\ Descriptors(listed[n].loc) # {}
          /\ Len(elems[n].questions) = 1
          /\ \E c \in Children(n) : Last(listed[c].loc) = Name_Dxml
====
